---- MODULE Spec2Model ----
(***************************************************************************)
(* ABalancedTeacher: the three front ends (routing_client.py, the          *)
(* rule-based terminal client; smart_router.py, the model-assisted         *)
(* terminal client; web_ui.py, the Gradio web UI), their per-tier          *)
(* conversation histories and overrides, and the two classifiers.          *)
(*                                                                         *)
(* Text is a sequence of one-character strings, so that lower(), strip(),  *)
(* split(), the substring tests and the regular expressions act on         *)
(* characters as they do in the code.  A float is an integer number of     *)
(* thousandths (0.7 is 700).                                               *)
(***************************************************************************)
EXTENDS Integers, Sequences, FiniteSets, TLC

\* ------------------------------------------------------------------ text

UPPER == <<"A", "B", "C", "D", "E", "F", "G", "H", "I", "J", "K", "L", "M",
           "N", "O", "P", "Q", "R", "S", "T", "U", "V", "W", "X", "Y", "Z">>
LOWER == <<"a", "b", "c", "d", "e", "f", "g", "h", "i", "j", "k", "l", "m",
           "n", "o", "p", "q", "r", "s", "t", "u", "v", "w", "x", "y", "z">>
DIGITS == <<"0", "1", "2", "3", "4", "5", "6", "7", "8", "9">>

\* str.lower() on one character
LowerChar(c) ==
    IF \E i \in DOMAIN UPPER : UPPER[i] = c
    THEN LOWER[CHOOSE i \in DOMAIN UPPER : UPPER[i] = c]
    ELSE c

\* str.lower()
Lower(s) == [i \in 1..Len(s) |-> LowerChar(s[i])]

\* str.isspace() on one character
IsSpace(c) == c \in {" ", "\n", "\t", "\r"}

IsDigit(c) == \E i \in DOMAIN DIGITS : DIGITS[i] = c

DigitValue(c) == (CHOOSE i \in DOMAIN DIGITS : DIGITS[i] = c) - 1

\* the input taken as typed, without .strip()
NoStrip(s) == s

\* str.strip()
Strip(s) ==
    LET keep == {i \in 1..Len(s) : ~IsSpace(s[i])}
    IN  IF keep = {} THEN <<>>
        ELSE LET lo == CHOOSE i \in keep : \A j \in keep : i <= j
                 hi == CHOOSE i \in keep : \A j \in keep : j <= i
             IN  SubSeq(s, lo, hi)

\* str.split() with no argument: the maximal runs of non-space characters
TokenStarts(s) == {i \in 1..Len(s) : ~IsSpace(s[i]) /\ (i = 1 \/ IsSpace(s[i - 1]))}

TokenEnd(s, i) ==
    CHOOSE j \in i..Len(s) :
        /\ \A k \in i..j : ~IsSpace(s[k])
        /\ (j = Len(s) \/ IsSpace(s[j + 1]))

Split(s) ==
    LET starts == TokenStarts(s)
        nth(n) == CHOOSE i \in starts : Cardinality({j \in starts : j < i}) = n - 1
    IN  [n \in 1..Cardinality(starts) |-> SubSeq(s, nth(n), TokenEnd(s, nth(n)))]

\* str.startswith(p)
StartsWith(s, p) == Len(s) >= Len(p) /\ SubSeq(s, 1, Len(p)) = p

\* k in s
Contains(s, k) ==
    \E i \in 1..(Len(s) - Len(k) + 1) : SubSeq(s, i, i + Len(k) - 1) = k

\* str.count(c) for a one-character c
Count(s, c) == Cardinality({i \in 1..Len(s) : s[i] = c})

\* The regular expressions of SIMPLE_PATTERNS are anchored at the start
\* (re.match) and end in $, which matches at the end of the text or just
\* before a newline that ends it.  "pos" is the index of the next character.
AtEnd(s, pos) == pos = Len(s) + 1 \/ (pos = Len(s) /\ s[pos] = "\n")

\* .{lo,hi} then tail: "." matches any character but a newline
DotRun(s, pos, n) == pos + n - 1 <= Len(s) /\ \A j \in pos..(pos + n - 1) : s[j] # "\n"

\* .+$ from pos
DotPlusToEnd(s, pos) == \E n \in 1..(Len(s) - pos + 1) : DotRun(s, pos, n) /\ AtEnd(s, pos + n)

\* --------------------------------------------------- routing_client.py

STRONG_KEYWORDS ==
    << <<"e", "x", "p", "l", "a", "i", "n", " ", "i", "n", " ", "d", "e", "t", "a", "i", "l">>,
       <<"s", "t", "e", "p", " ", "b", "y", " ", "s", "t", "e", "p">>,
       <<"c", "o", "m", "p", "r", "e", "h", "e", "n", "s", "i", "v", "e">>,
       <<"t", "h", "o", "r", "o", "u", "g", "h">>,
       <<"d", "e", "e", "p", " ", "d", "i", "v", "e">>,
       <<"a", "d", "v", "a", "n", "c", "e", "d">>,
       <<"d", "e", "b", "u", "g">>,
       <<"f", "i", "x", " ", "t", "h", "i", "s", " ", "c", "o", "d", "e">>,
       <<"r", "e", "v", "i", "e", "w", " ", "m", "y", " ", "c", "o", "d", "e">>,
       <<"o", "p", "t", "i", "m", "i", "z", "e">>,
       <<"a", "r", "c", "h", "i", "t", "e", "c", "t", "u", "r", "e">>,
       <<"d", "e", "s", "i", "g", "n", " ", "p", "a", "t", "t", "e", "r", "n">>,
       <<"a", "l", "g", "o", "r", "i", "t", "h", "m">>,
       <<"p", "r", "o", "v", "e">>,
       <<"d", "e", "r", "i", "v", "e">>,
       <<"m", "a", "t", "h", "e", "m", "a", "t", "i", "c", "a", "l">> >>

NORMAL_KEYWORDS ==
    << <<"e", "x", "p", "l", "a", "i", "n">>,
       <<"w", "h", "y">>,
       <<"h", "o", "w", " ", "d", "o", "e", "s">>,
       <<"c", "o", "m", "p", "a", "r", "e">>,
       <<"a", "n", "a", "l", "y", "z", "e">>,
       <<"e", "l", "a", "b", "o", "r", "a", "t", "e">>,
       <<"t", "e", "a", "c", "h", " ", "m", "e">>,
       <<"h", "e", "l", "p", " ", "m", "e", " ", "u", "n", "d", "e", "r", "s", "t", "a", "n", "d">>,
       <<"w", "h", "a", "t", " ", "i", "s", " ", "t", "h", "e", " ", "d", "i", "f", "f", "e", "r", "e", "n", "c", "e">>,
       <<"p", "r", "o", "s", " ", "a", "n", "d", " ", "c", "o", "n", "s">>,
       <<"a", "d", "v", "a", "n", "t", "a", "g", "e", "s">>,
       <<"d", "i", "s", "a", "d", "v", "a", "n", "t", "a", "g", "e", "s">>,
       <<"e", "x", "a", "m", "p", "l", "e">>,
       <<"c", "o", "d", "e">>,
       <<"w", "r", "i", "t", "e">>,
       <<"c", "r", "e", "a", "t", "e">>,
       <<"i", "m", "p", "l", "e", "m", "e", "n", "t">> >>

\* the alternatives of SIMPLE_PATTERNS[0]
GREETINGS ==
    << <<"h", "i">>,
       <<"h", "e", "l", "l", "o">>,
       <<"h", "e", "y">>,
       <<"t", "h", "a", "n", "k", "s">>,
       <<"t", "h", "a", "n", "k", " ", "y", "o", "u">>,
       <<"o", "k">>,
       <<"o", "k", "a", "y">>,
       <<"y", "e", "s">>,
       <<"n", "o">>,
       <<"b", "y", "e">>,
       <<"g", "o", "o", "d", "b", "y", "e">> >>

WHAT_IS == <<"w", "h", "a", "t", " ", "i", "s", " ">>
WHAT_ARE == <<"w", "h", "a", "t", " ", "a", "r", "e", " ">>
LIST_PREFIXES ==
    << <<"l", "i", "s", "t", " ">>,
       <<"n", "a", "m", "e", " ">>,
       <<"g", "i", "v", "e", " ", "m", "e", " ">> >>
TRANSLATE_PREFIX == <<"t", "r", "a", "n", "s", "l", "a", "t", "e", " ">>
DEFINE_PREFIX == <<"d", "e", "f", "i", "n", "e", " ">>
\* The grave accent (U+0060) cannot be written inside a TLA+ string: this
\* one string stands for that one character.
GRAVE == "grave"
CODE_FENCE == <<GRAVE, GRAVE, GRAVE>>
DEF_TOKEN == <<"d", "e", "f", " ">>
FUNCTION_TOKEN == <<"f", "u", "n", "c", "t", "i", "o", "n", " ">>
CLASS_TOKEN == <<"c", "l", "a", "s", "s", " ">>

\* r"^(hi|hello|hey|thanks|thank you|ok|okay|yes|no|bye|goodbye)\.?$"
MatchGreeting(s) ==
    \E i \in DOMAIN GREETINGS :
        LET g == GREETINGS[i]
        IN  /\ StartsWith(s, g)
            /\ \/ AtEnd(s, Len(g) + 1)
               \/ /\ Len(s) >= Len(g) + 1
                  /\ s[Len(g) + 1] = "."
                  /\ AtEnd(s, Len(g) + 2)

\* r"^what (is|are) .{1,30}\??$"
MatchWhatIs(s) ==
    \E pre \in {WHAT_IS, WHAT_ARE} :
        /\ StartsWith(s, pre)
        /\ \E n \in 1..30 :
              /\ DotRun(s, Len(pre) + 1, n)
              /\ \/ AtEnd(s, Len(pre) + n + 1)
                 \/ /\ Len(s) >= Len(pre) + n + 1
                    /\ s[Len(pre) + n + 1] = "?"
                    /\ AtEnd(s, Len(pre) + n + 2)

\* r"^(list|name|give me) \d+ .+$"
MatchListRequest(s) ==
    \E i \in DOMAIN LIST_PREFIXES :
        LET pre == LIST_PREFIXES[i]
        IN  /\ StartsWith(s, pre)
            /\ \E d \in 1..(Len(s) - Len(pre)) :
                  /\ \A j \in (Len(pre) + 1)..(Len(pre) + d) : IsDigit(s[j])
                  /\ Len(s) >= Len(pre) + d + 1
                  /\ s[Len(pre) + d + 1] = " "
                  /\ DotPlusToEnd(s, Len(pre) + d + 2)

\* r"^translate .+$"
MatchTranslate(s) == StartsWith(s, TRANSLATE_PREFIX) /\ DotPlusToEnd(s, Len(TRANSLATE_PREFIX) + 1)

\* r"^define .+$"
MatchDefine(s) == StartsWith(s, DEFINE_PREFIX) /\ DotPlusToEnd(s, Len(DEFINE_PREFIX) + 1)

\* any(re.match(pattern, prompt_lower) for pattern in SIMPLE_PATTERNS)
MatchesSimplePattern(s) ==
    \/ MatchGreeting(s)
    \/ MatchWhatIs(s)
    \/ MatchListRequest(s)
    \/ MatchTranslate(s)
    \/ MatchDefine(s)

HasStrongKeyword(s) == \E i \in DOMAIN STRONG_KEYWORDS : Contains(s, STRONG_KEYWORDS[i])

HasNormalKeyword(s) == \E i \in DOMAIN NORMAL_KEYWORDS : Contains(s, NORMAL_KEYWORDS[i])

\* the heuristics with each word-count threshold made inclusive
HeuristicsInclusive(prompt) ==
    LET word_count == Len(Split(prompt))
        has_code == \/ Contains(prompt, CODE_FENCE)
                    \/ Contains(prompt, DEF_TOKEN)
                    \/ Contains(prompt, FUNCTION_TOKEN)
                    \/ Contains(prompt, CLASS_TOKEN)
        has_multiple_questions == Count(prompt, "?") > 1
        has_complex_code == Count(prompt, "\n") > 5 /\ has_code
    IN  IF has_complex_code \/ has_multiple_questions THEN "strong"
        ELSE IF has_code THEN "normal"
        ELSE IF word_count >= 100 THEN "strong"
        ELSE IF word_count >= 30 THEN "normal"
        ELSE IF word_count <= 10 THEN "fast"
        ELSE "normal"

\* the length and structure heuristics, on the prompt as given
Heuristics(prompt) ==
    LET word_count == Len(Split(prompt))
        has_code == \/ Contains(prompt, CODE_FENCE)
                    \/ Contains(prompt, DEF_TOKEN)
                    \/ Contains(prompt, FUNCTION_TOKEN)
                    \/ Contains(prompt, CLASS_TOKEN)
        has_multiple_questions == Count(prompt, "?") > 1
        has_complex_code == Count(prompt, "\n") > 5 /\ has_code
    IN  IF has_complex_code \/ has_multiple_questions THEN "strong"
        ELSE IF has_code THEN "normal"
        ELSE IF word_count > 100 THEN "strong"
        ELSE IF word_count > 30 THEN "normal"
        ELSE IF word_count < 10 THEN "fast"
        ELSE "normal"

\* classify_complexity with the keyword loops before the pattern loop
classify_complexity_keywords_first(prompt) ==
    LET prompt_lower == Strip(Lower(prompt))
    IN  IF HasStrongKeyword(prompt_lower) THEN "strong"
        ELSE IF HasNormalKeyword(prompt_lower) THEN "normal"
        ELSE IF MatchesSimplePattern(prompt_lower) THEN "fast"
        ELSE Heuristics(prompt)

\* classify_complexity with its two keyword loops in the other order
classify_complexity_normal_first(prompt) ==
    LET prompt_lower == Strip(Lower(prompt))
    IN  IF MatchesSimplePattern(prompt_lower) THEN "fast"
        ELSE IF HasNormalKeyword(prompt_lower) THEN "normal"
        ELSE IF HasStrongKeyword(prompt_lower) THEN "strong"
        ELSE Heuristics(prompt)

classify_complexity(prompt) ==
    LET prompt_lower == Strip(Lower(prompt))
    IN  IF MatchesSimplePattern(prompt_lower) THEN "fast"
        ELSE IF HasStrongKeyword(prompt_lower) THEN "strong"
        ELSE IF HasNormalKeyword(prompt_lower) THEN "normal"
        ELSE Heuristics(prompt)

\* ----------------------------------------------------------------- floats

\* A float is an integer number of millionths: One is 1.0.
One == 10 ^ 6

\* float("nan"): every comparison with it is false
NaN == -2147483647

\* a < b on floats
PyLess(a, b) == a # NaN /\ b # NaN /\ a < b

\* the builtin min(a, b): b if b < a, else a
PyMin(a, b) == IF PyLess(b, a) THEN b ELSE a

\* the builtin max(a, b): b if b > a, else a
PyMax(a, b) == IF PyLess(a, b) THEN b ELSE a

\* max(0.0, min(1.0, x))
Clamp01(x) == PyMax(0, PyMin(One, x))

\* a * b on floats in [0, 2.1]: the product of two numbers of millionths,
\* split so that no intermediate value leaves 32 bits
MulFix(a, b) == (((a \div 1000) * b) \div 1000) + (((a % 1000) * b) \div One)

Abs(x) == IF x < 0 THEN -x ELSE x

\* exp(-y) for 0 <= y < 1 by its Taylor polynomial of degree 10, in Horner form
RECURSIVE ExpNegSmall(_, _)
ExpNegSmall(y, k) ==
    IF k > 10 THEN One ELSE One - (MulFix(y, ExpNegSmall(y, k + 1)) \div k)

RECURSIVE SquareTimes(_, _)
SquareTimes(w, n) == IF n = 0 THEN w ELSE SquareTimes(MulFix(w, w), n - 1)

\* ------------------------------------------------------- smart_router.py

TEMP_MEAN == 700000
TEMP_SIGMA == 150000

\* math.exp(-(distance ** 2) / (2 * TEMP_SIGMA ** 2)), to within 2e-5:
\* with r = distance / sigma, the exponent is r * r / 2; exp(-x) is
\* exp(-x / 32) squared five times, and below 1e-6 once r >= 6.4
GaussianWeight(distance) ==
    LET r == (distance * 100) \div (TEMP_SIGMA \div 10000)
        q == r \div 8
    IN  IF r >= 6400000 THEN 0
        ELSE SquareTimes(ExpNegSmall(MulFix(q, q), 1), 5)

\* the blend with its two weights exchanged
apply_gaussian_temperature_swapped(base_temp) ==
    LET distance_from_mean == Abs(base_temp - TEMP_MEAN)
        gaussian_weight == GaussianWeight(distance_from_mean)
        adjusted_temp == MulFix(base_temp, One - gaussian_weight)
                         + MulFix(TEMP_MEAN, gaussian_weight)
    IN  Clamp01(adjusted_temp)

\* the weight taken from the value itself, not from its distance to the mean
apply_gaussian_temperature_raw_weight(base_temp) ==
    LET gaussian_weight == GaussianWeight(Abs(base_temp))
        adjusted_temp == MulFix(base_temp, gaussian_weight)
                         + MulFix(TEMP_MEAN, One - gaussian_weight)
    IN  Clamp01(adjusted_temp)

apply_gaussian_temperature(base_temp) ==
    LET distance_from_mean == Abs(base_temp - TEMP_MEAN)
        gaussian_weight == GaussianWeight(distance_from_mean)
        adjusted_temp == MulFix(base_temp, gaussian_weight)
                         + MulFix(TEMP_MEAN, One - gaussian_weight)
    IN  Clamp01(adjusted_temp)

\* float(s) for a str s: an optional sign, digits with at most one point, or
\* "nan"; anything else raises ValueError.  (Exponents, "inf" and
\* underscores, which float() also reads, are not in any input set here.)
NAN_TEXT == <<"n", "a", "n">>

IsDecimal(s) ==
    LET body == IF s # <<>> /\ s[1] \in {"+", "-"} THEN Tail(s) ELSE s
    IN  /\ Cardinality({i \in 1..Len(body) : body[i] = "."}) <= 1
        /\ \E i \in 1..Len(body) : IsDigit(body[i])
        /\ \A i \in 1..Len(body) : IsDigit(body[i]) \/ body[i] = "."

RECURSIVE DigitsValue(_)
DigitsValue(ds) ==
    IF ds = <<>> THEN 0 ELSE 10 * DigitsValue(SubSeq(ds, 1, Len(ds) - 1)) + DigitValue(ds[Len(ds)])

DecimalValue(s) ==
    LET neg == s[1] = "-"
        body == IF s[1] \in {"+", "-"} THEN Tail(s) ELSE s
        dot == IF \E i \in 1..Len(body) : body[i] = "."
               THEN CHOOSE i \in 1..Len(body) : body[i] = "."
               ELSE Len(body) + 1
        whole == SubSeq(body, 1, dot - 1)
        frac == SubSeq(body, dot + 1, Len(body))
        frac6 == SubSeq(frac \o <<"0", "0", "0", "0", "0", "0">>, 1, 6)
        v == DigitsValue(whole) * One + DigitsValue(frac6)
    IN  IF neg THEN -v ELSE v

\* the result of float(s): ok is FALSE when it raises ValueError
ParseFloat(text) ==
    LET s == Strip(text)
    IN  IF Lower(s) = NAN_TEXT THEN [ok |-> TRUE, v |-> NaN]
        ELSE IF IsDecimal(s) THEN [ok |-> TRUE, v |-> DecimalValue(s)]
        ELSE [ok |-> FALSE, v |-> 0]

\* The auxiliary model's output is a sequence of lexemes: a brace, a comma,
\* a run of white space, a run of prose, or one member "key": value of a
\* JSON object.  A value is
\* a string (s, its characters), a number (n), true or false (n is 1 or 0),
\* null, a list or a nested object (s, its characters).  String values hold
\* no quote, backslash or opening brace.
Lexeme(k, key, t, s, n) == [k |-> k, key |-> key, t |-> t, s |-> s, n |-> n]
LBRACE == Lexeme("lbrace", <<>>, "none", <<>>, 0)
RBRACE == Lexeme("rbrace", <<>>, "none", <<>>, 0)
COMMA == Lexeme("comma", <<>>, "none", <<>>, 0)
SPACE == Lexeme("space", <<>>, "none", <<>>, 0)
PROSE == Lexeme("text", <<>>, "none", <<>>, 0)
StrMember(key, s) == Lexeme("member", key, "str", s, 0)
NumMember(key, n) == Lexeme("member", key, "num", <<>>, n)
BoolMember(key, b) == Lexeme("member", key, "bool", <<>>, IF b THEN 1 ELSE 0)
NullMember(key) == Lexeme("member", key, "null", <<>>, 0)
ListMember(key) == Lexeme("member", key, "list", <<>>, 0)
ObjMember(key, s) == Lexeme("member", key, "obj", s, 0)

DIFFICULTY == <<"d", "i", "f", "f", "i", "c", "u", "l", "t", "y">>
TEMPERATURE == <<"t", "e", "m", "p", "e", "r", "a", "t", "u", "r", "e">>
REASON == <<"r", "e", "a", "s", "o", "n">>
FAST_TEXT == <<"f", "a", "s", "t">>
NORMAL_TEXT == <<"n", "o", "r", "m", "a", "l">>
STRONG_TEXT == <<"s", "t", "r", "o", "n", "g">>

\* What r"\{[^}]+\}" distinguishes in a lexeme's characters: an opening
\* brace, a closing brace, anything else ("o").  A member is its key, colon
\* and opening quote, the characters of a string value, and the rest.
BraceClass(c) == IF c \in {"{", "}"} THEN c ELSE "o"

Classes(lex) ==
    CASE lex.k = "lbrace" -> <<"{">>
      [] lex.k = "rbrace" -> <<"}">>
      [] lex.k = "member" -> <<"o">> \o [i \in 1..Len(lex.s) |-> BraceClass(lex.s[i])] \o <<"o">>
      [] OTHER -> <<"o">>

\* the characters of the output, each as <<index of its lexeme, class>>
RECURSIVE Flatten(_, _)
Flatten(result, i) ==
    IF i > Len(result) THEN <<>>
    ELSE [j \in 1..Len(Classes(result[i])) |-> <<i, Classes(result[i])[j]>>]
         \o Flatten(result, i + 1)

\* re.search(r"\{[^}]+\}", result): the first opening brace that is followed
\* by at least one character other than a closing brace and then by a
\* closing brace; the match ends at the first closing brace after it.
\* <<a, b>> are the positions of the two braces, <<0, 0>> when there is none.
ReSearchObject(chars) ==
    LET closes(a) == {b \in (a + 1)..Len(chars) : chars[b][2] = "}"}
        first(a) == CHOOSE b \in closes(a) : \A c \in closes(a) : b <= c
        starts == {a \in 1..Len(chars) :
                     chars[a][2] = "{" /\ closes(a) # {} /\ first(a) >= a + 2}
    IN  IF starts = {} THEN <<0, 0>>
        ELSE LET a == CHOOSE x \in starts : \A y \in starts : x <= y
             IN  <<a, first(a)>>

\* json.loads of the matched text: the members of the object, in order, or
\* invalid (JSONDecodeError).  The text is an object when it runs from a
\* brace lexeme to a brace lexeme and holds, white space apart, nothing or
\* members separated by commas; a match that ends inside a string value
\* cuts that lexeme.
JsonLoads(result, chars, m) ==
    LET i == chars[m[1]][1]
        j == chars[m[2]][1]
        NotSpace(lex) == lex.k # "space"
        inner == SelectSeq(SubSeq(result, i + 1, j - 1), NotSpace)
        valid == /\ result[i].k = "lbrace"
                 /\ result[j].k = "rbrace"
                 /\ \/ inner = <<>>
                    \/ /\ Len(inner) % 2 = 1
                       /\ \A n \in 1..Len(inner) :
                             inner[n].k = (IF n % 2 = 1 THEN "member" ELSE "comma")
    IN  [valid |-> valid,
         members |-> IF valid THEN [n \in 1..((Len(inner) + 1) \div 2) |-> inner[2 * n - 1]]
                     ELSE <<>>]

\* parsed.get(key, default): the value of the last member with that key
HasKey(members, key) == \E n \in 1..Len(members) : members[n].key = key

Get(members, key) ==
    members[CHOOSE n \in 1..Len(members) :
                /\ members[n].key = key
                /\ \A o \in 1..Len(members) : members[o].key = key => o <= n]

Exceptions == {"RequestException", "JSONDecodeError", "ValueError", "AttributeError", "TypeError"}

\* an except clause that leaves out json.JSONDecodeError
NARROW_CAUGHT == {"RequestException", "ValueError"}

\* smart_router.py: except (json.JSONDecodeError, requests.RequestException, ValueError)
SR_CAUGHT == {"JSONDecodeError", "RequestException", "ValueError"}

\* web_ui.py: except Exception
WEB_CAUGHT == Exceptions

\* the 0.7 of the fallback decision, of a forced decision and of the defaults
DEFAULT_TEMPERATURE == 700000

Decision(difficulty, temperature, reason) ==
    [raised |-> "none", difficulty |-> difficulty, temperature |-> temperature, reason |-> reason]

\* an exception that leaves classify_with_ai
Escaped(e) == [raised |-> e, difficulty |-> "none", temperature |-> 0, reason |-> "none"]

Fallback == Decision("normal", DEFAULT_TEMPERATURE, "Fallback")

\* the membership test on the value as the model wrote it
DifficultyOfNoLower(members) ==
    IF ~HasKey(members, DIFFICULTY) THEN [raised |-> "none", v |-> "normal"]
    ELSE LET d == Get(members, DIFFICULTY)
         IN  IF d.t # "str" THEN [raised |-> "AttributeError", v |-> "none"]
             ELSE [raised |-> "none",
                   v |-> IF d.s = FAST_TEXT THEN "fast"
                         ELSE IF d.s = NORMAL_TEXT THEN "normal"
                         ELSE IF d.s = STRONG_TEXT THEN "strong"
                         ELSE "normal"]

\* parsed.get("difficulty", "normal").lower(), then the membership test
DifficultyOf(members) ==
    IF ~HasKey(members, DIFFICULTY) THEN [raised |-> "none", v |-> "normal"]
    ELSE LET d == Get(members, DIFFICULTY)
         IN  IF d.t # "str" THEN [raised |-> "AttributeError", v |-> "none"]
             ELSE LET low == Lower(d.s)
                  IN  [raised |-> "none",
                       v |-> IF low = FAST_TEXT THEN "fast"
                             ELSE IF low = NORMAL_TEXT THEN "normal"
                             ELSE IF low = STRONG_TEXT THEN "strong"
                             ELSE "normal"]

\* float(parsed.get("temperature", 0.7))
BaseTemperatureOf(members) ==
    IF ~HasKey(members, TEMPERATURE) THEN [raised |-> "none", v |-> DEFAULT_TEMPERATURE]
    ELSE LET t == Get(members, TEMPERATURE)
         IN  CASE t.t \in {"num", "bool"} -> [raised |-> "none", v |-> IF t.t = "bool" THEN t.n * One ELSE t.n]
               [] t.t = "str" -> IF ParseFloat(t.s).ok
                                 THEN [raised |-> "none", v |-> ParseFloat(t.s).v]
                                 ELSE [raised |-> "ValueError", v |-> 0]
               [] OTHER -> [raised |-> "TypeError", v |-> 0]

\* classify_with_ai; "caught" is what its except clause catches.  The
\* outcome of generate_simple is a request error or the model's output.
ClassifyWithAi(caught, outcome) ==
    LET Raise(e) == IF e \in caught THEN Fallback ELSE Escaped(e)
    IN  IF outcome.kind = "RequestException" THEN Raise("RequestException")
        ELSE
        LET chars == Flatten(outcome.result, 1)
            json_match == ReSearchObject(chars)
        IN  IF json_match = <<0, 0>> THEN Fallback
            ELSE
            LET parsed == JsonLoads(outcome.result, chars, json_match)
            IN  IF ~parsed.valid THEN Raise("JSONDecodeError")
                ELSE
                LET difficulty == DifficultyOf(parsed.members)
                    base == BaseTemperatureOf(parsed.members)
                IN  IF difficulty.raised # "none" THEN Raise(difficulty.raised)
                    ELSE IF base.raised # "none" THEN Raise(base.raised)
                    ELSE Decision(difficulty.v,
                                  apply_gaussian_temperature(Clamp01(base.v)),
                                  IF HasKey(parsed.members, REASON)
                                  THEN "given" ELSE "AI classification")

RequestError == [kind |-> "RequestException", result |-> <<>>]
Reply(result) == [kind |-> "reply", result |-> result]

\* ------------------------------------------------------------ front ends

Tiers == {"fast", "normal", "strong"}

FAST_MODEL == "quick-tutor"
NORMAL_MODEL == "balanced-tutor"
STRONG_MODEL == "deep-tutor"

FrontEnds == {"routing_client", "smart_router", "web_ui"}

\* An optional float: None, or a value.
None == [set |-> FALSE, v |-> 0]
Some(x) == [set |-> TRUE, v |-> x]

\* One message of a history.  "sid" is not a key of the dict: it records
\* which session's query appended the turn, and no action reads it.
Turn(role, content, sid) == [role |-> role, content |-> content, sid |-> sid]

\* The terminal clients run one conversation; the web UI serves every
\* browser session from one process.
Sessions == {1, 2}

\* The web sessions whose user operates the controls; the other session
\* leaves its radio, checkbox and slider as they are when the page loads.
Operators == {1}

\* A query is in flight in the one loop of a terminal client ("main"), or
\* in a call of respond started by one of the two event listeners of the
\* web UI, msg.submit and send_btn.click.
SlotsOf(f) == IF f = "web_ui" THEN {"submit", "click"} ELSE {"main"}

\* "ai" is the temperature of the decision classify_with_ai returned for
\* the query, None when it was not called; no action reads it.
Idle ==
    [pc |-> "idle", sid |-> 0, message |-> <<>>, forced |-> FALSE,
     difficulty |-> "none", history |-> "none", model |-> "none",
     temperature |-> 0, ai |-> None, messages |-> <<>>, stale |-> FALSE]

\* ---- inputs

MaxQueries == 2

BYE == <<"/", "b", "y", "e">>
CMD_FAST == <<"/", "f", "a", "s", "t">>
CMD_NORMAL == <<"/", "n", "o", "r", "m", "a", "l">>
CMD_STRONG == <<"/", "s", "t", "r", "o", "n", "g">>
CMD_AUTO == <<"/", "a", "u", "t", "o">>
CMD_TEMP == <<"/", "t", "e", "m", "p", " ">>
CMD_STATUS == <<"/", "s", "t", "a", "t", "u", "s">>
CMD_MODELS == <<"/", "m", "o", "d", "e", "l", "s">>

\* what the user types at the prompt of a terminal client
Lines ==
    { <<"h", "i">>,
      <<"d", "e", "b", "u", "g">>,
      <<" ">>,
      <<"/", "f", "a", "s", "t">>,
      <<"/", "S", "t", "r", "o", "n", "g">>,
      <<"/", "n", "o", "r", "m", "a", "l">>,
      <<"/", "a", "u", "t", "o">>,
      <<"/", "b", "y", "e">>,
      <<"/", "s", "t", "a", "t", "u", "s">>,
      <<"/", "m", "o", "d", "e", "l", "s">>,
      <<"/", "t", "e", "m", "p", " ", "0">>,
      <<"/", "t", "e", "m", "p", " ", "1", ".", "5">>,
      <<"/", "t", "e", "m", "p", " ", "x">> }

\* what the user types at "Temperature (0-1, default 0.7): "
StartupInputs ==
    { <<>>,
      <<"1", ".", "5">>,
      <<"a", "b", "c">> }

\* what the user types in the textbox of the web UI
WebMessages ==
    { <<"h", "i">>,
      <<" ">> }

\* the positions of the Fixed Temperature slider (0.0 to 1.0)
SliderValues == {0, 300000}

RadioChoices == {"Auto", "Fast", "Normal", "Strong"}

\* the choices the user of the web UI makes
RadioPicks == {"Auto", "Fast"}

\* full_response, the text the tier's model answers with
RESPONSE == <<"r">>

\* what generate_simple does for one classification call
AiOutcomes ==
    { RequestError,
      Reply(<<PROSE>>),
      Reply(<<LBRACE, StrMember(DIFFICULTY, FAST_TEXT), COMMA, NumMember(TEMPERATURE, 300000), RBRACE>>),
      Reply(<<PROSE, LBRACE, StrMember(DIFFICULTY, STRONG_TEXT), COMMA, NumMember(TEMPERATURE, 7 * One), RBRACE>>),
      Reply(<<LBRACE, NullMember(DIFFICULTY), RBRACE>>) }

\* how one chat call ends: the whole answer, a request error (connection,
\* HTTP status), or a line of the stream that is not JSON
ChatOutcomes == {"ok", "RequestException", "JSONDecodeError"}

VARIABLES
    fe,              \* which front end this process is
    phase,           \* "start" (routing_client's temperature prompt), "loop", "exited", "crashed"
    histories,       \* messages_fast, messages_normal, messages_strong / histories
    force_mode,      \* per session: force_mode (terminal), the Model Selection radio (web)
    fixed_temp,      \* per session: fixed_temp (smart_router), the Fixed Temperature slider (web)
    use_fixed_temp,  \* per session: the Override Temperature checkbox (web)
    temperature,     \* routing_client's start-up temperature
    rq,              \* per slot: the query in flight, or Idle
    queries,         \* queries accepted so far
    last_override,   \* the last of /fast, /normal, /strong, /auto typed since the previous query
    prompt,          \* classify_complexity: its argument ...
    complexity,      \* ... and its result
    generated,       \* classify_with_ai: what its except clause catches and what generate_simple did ...
    classification,  \* ... and its result
    base_temp,       \* apply_gaussian_temperature: its argument ...
    shaped           \* ... and its result, None before the call

sessionVars == <<fe, phase, histories, force_mode, fixed_temp, use_fixed_temp, temperature, rq, queries,
                 last_override>>
functionVars == <<prompt, complexity, generated, classification, base_temp, shaped>>
vars == <<sessionVars, last_override, functionVars>>

NoCall == [caught |-> {}, outcome |-> RequestError]

FunctionsIdle ==
    /\ prompt = <<>>
    /\ complexity = "none"
    /\ generated = NoCall
    /\ classification = Escaped("none")
    /\ base_temp = 0
    /\ shaped = None

Init ==
    /\ fe \in FrontEnds
    /\ phase = IF fe = "routing_client" THEN "start" ELSE "loop"
    /\ histories = [t \in Tiers |-> <<>>]
    /\ force_mode = [s \in Sessions |-> IF fe = "web_ui" THEN "Auto" ELSE "None"]
    /\ fixed_temp = [s \in Sessions |-> IF fe = "web_ui" THEN Some(DEFAULT_TEMPERATURE) ELSE None]
    /\ use_fixed_temp = [s \in Sessions |-> FALSE]
    /\ temperature = DEFAULT_TEMPERATURE
    /\ rq = [slot \in SlotsOf(fe) |-> Idle]
    /\ queries = 0
    /\ last_override = "none"
    /\ FunctionsIdle

\* ---- the decision

\* the chain without its branch for normal: normal falls to the else
SelectTierNoElif(difficulty) ==
    IF difficulty = "fast" THEN [model |-> FAST_MODEL, messages |-> "fast"]
    ELSE [model |-> STRONG_MODEL, messages |-> "strong"]

\* the if/elif chain that picks the model and the history list for a tier
SelectTier(difficulty) ==
    IF difficulty = "fast" THEN [model |-> FAST_MODEL, messages |-> "fast"]
    ELSE IF difficulty = "normal" THEN [model |-> NORMAL_MODEL, messages |-> "normal"]
    ELSE [model |-> STRONG_MODEL, messages |-> "strong"]

\* web_ui.get_tier_info(difficulty)[2] and histories[difficulty]
GetTierInfo(difficulty) ==
    IF difficulty \in Tiers
    THEN [model |-> SelectTier(difficulty).model, messages |-> difficulty]
    ELSE [model |-> NORMAL_MODEL, messages |-> difficulty]

\* routing_client: force_mode if set, else classify_complexity(user_input)
RoutingClientDecision(force, temp, user_input) ==
    [raised |-> "none",
     forced |-> force # "None",
     difficulty |-> IF force # "None" THEN force ELSE classify_complexity(user_input),
     temperature |-> temp,
     ai |-> None]

\* smart_router: the forced or classified decision, then the fixed
\* temperature if one is set
SmartRouterDecision(force, fixed, outcome) ==
    LET c == IF force # "None"
             THEN Decision(force, IF fixed.set THEN fixed.v ELSE DEFAULT_TEMPERATURE, "Forced by user")
             ELSE ClassifyWithAi(SR_CAUGHT, outcome)
    IN  [raised |-> c.raised,
         forced |-> force # "None",
         difficulty |-> c.difficulty,
         temperature |-> IF fixed.set THEN fixed.v ELSE c.temperature,
         ai |-> IF force # "None" THEN None ELSE Some(c.temperature)]

\* "fixed_temp if fixed_temp else x": None and 0.0 are both false
Truthy(fixed) == fixed.set /\ fixed.v # 0

RadioLower(choice) ==
    CASE choice = "Fast" -> "fast"
      [] choice = "Normal" -> "normal"
      [] choice = "Strong" -> "strong"
      [] OTHER -> "auto"

\* web_ui.respond: the decision
WebDecision(force, fixed, outcome) ==
    IF force # "Auto"
    THEN [raised |-> "none", forced |-> TRUE, difficulty |-> RadioLower(force),
          temperature |-> IF Truthy(fixed) THEN fixed.v ELSE DEFAULT_TEMPERATURE,
          ai |-> None]
    ELSE LET c == ClassifyWithAi(WEB_CAUGHT, outcome)
         IN  [raised |-> c.raised, forced |-> FALSE, difficulty |-> c.difficulty,
              temperature |-> IF Truthy(fixed) THEN fixed.v ELSE c.temperature,
              ai |-> Some(c.temperature)]

\* ---- the terminal clients

Terminal == fe \in {"routing_client", "smart_router"}

\* which branch of the command chain a stripped input line takes
LineKind(f, user_input) ==
    LET low == Lower(user_input)
    IN  IF user_input = <<>> THEN "empty"
        ELSE IF low = BYE THEN "bye"
        ELSE IF low = CMD_FAST THEN "fast"
        ELSE IF low = CMD_NORMAL THEN "normal"
        ELSE IF low = CMD_STRONG THEN "strong"
        ELSE IF low = CMD_AUTO THEN "auto"
        ELSE IF f = "smart_router" /\ StartsWith(low, CMD_TEMP) THEN "temp"
        ELSE IF f = "routing_client" /\ low = CMD_STATUS THEN "status"
        ELSE IF low = CMD_MODELS THEN "models"
        ELSE "query"

\* the branch each line of Lines takes in each terminal client
KindOf ==
    [f \in {"routing_client", "smart_router"} |-> [text \in Lines |-> LineKind(f, Strip(text))]]

\* routing_client: temperature = float(temp_input) if temp_input else 0.7
Startup(text) ==
    /\ fe = "routing_client"
    /\ phase = "start"
    /\ LET temp_input == Strip(text)
           parsed == ParseFloat(temp_input)
       IN  temperature' = IF temp_input # <<>> /\ parsed.ok THEN parsed.v ELSE DEFAULT_TEMPERATURE
    /\ phase' = "loop"
    /\ UNCHANGED <<fe, histories, force_mode, fixed_temp, use_fixed_temp, rq, queries, last_override, functionVars>>

Prompting == Terminal /\ phase = "loop" /\ rq["main"].pc = "idle"

\* an empty line, /status, /models: nothing changes
NoOpLine(text) ==
    /\ Prompting
    /\ KindOf[fe][text] \in {"empty", "status", "models"}
    /\ UNCHANGED vars

\* /bye, or end of input
Bye(text) ==
    /\ Prompting
    /\ KindOf[fe][text] = "bye"
    /\ phase' = "exited"
    /\ UNCHANGED <<fe, histories, force_mode, fixed_temp, use_fixed_temp, temperature, rq, queries, last_override, functionVars>>

\* a force command that is ignored while a forced tier is pending
ForceCommandFirstWins(text) ==
    /\ Prompting
    /\ KindOf[fe][text] \in Tiers
    /\ force_mode' = IF force_mode[1] = "None"
                     THEN [force_mode EXCEPT ![1] = KindOf[fe][text]]
                     ELSE force_mode
    /\ last_override' = KindOf[fe][text]
    /\ UNCHANGED <<fe, phase, histories, fixed_temp, use_fixed_temp, temperature, rq, queries, functionVars>>

\* /fast, /normal, /strong
ForceCommand(text) ==
    /\ Prompting
    /\ KindOf[fe][text] \in Tiers
    /\ force_mode' = [force_mode EXCEPT ![1] = KindOf[fe][text]]
    /\ last_override' = KindOf[fe][text]
    /\ UNCHANGED <<fe, phase, histories, fixed_temp, use_fixed_temp, temperature, rq, queries, functionVars>>

\* /auto: force_mode = None, and in smart_router fixed_temp = None
AutoCommand(text) ==
    /\ Prompting
    /\ KindOf[fe][text] = "auto"
    /\ force_mode' = [force_mode EXCEPT ![1] = "None"]
    /\ fixed_temp' = IF fe = "smart_router" THEN [fixed_temp EXCEPT ![1] = None] ELSE fixed_temp
    /\ last_override' = "auto"
    /\ UNCHANGED <<fe, phase, histories, use_fixed_temp, temperature, rq, queries, functionVars>>

\* smart_router: /temp X sets fixed_temp to X clamped, or prints the usage
TempCommand(text) ==
    /\ Prompting
    /\ KindOf[fe][text] = "temp"
    /\ LET words == Split(Strip(text))
           parsed == IF Len(words) >= 2 THEN ParseFloat(words[2]) ELSE [ok |-> FALSE, v |-> 0]
       IN  fixed_temp' = IF parsed.ok
                         THEN [fixed_temp EXCEPT ![1] = Some(Clamp01(parsed.v))]
                         ELSE fixed_temp
    /\ UNCHANGED <<fe, phase, histories, force_mode, use_fixed_temp, temperature, rq, queries, last_override, functionVars>>

\* the request a decision starts: the user turn is appended to the selected
\* list, and the list goes to the chat call of the selected model
Dispatch(slot, sid, content, decision, sel) ==
    /\ histories' = [histories EXCEPT ![sel.messages] = Append(@, Turn("user", content, sid))]
    /\ rq' = [rq EXCEPT ![slot] =
                [pc |-> "streaming", sid |-> sid, message |-> content,
                 forced |-> decision.forced, difficulty |-> decision.difficulty,
                 history |-> sel.messages, model |-> sel.model,
                 temperature |-> decision.temperature, ai |-> decision.ai,
                 messages |-> Append(histories[sel.messages], Turn("user", content, sid)),
                 stale |-> FALSE]]
    /\ queries' = queries + 1

\* a query that leaves force_mode as it is
QueryKeepsForce(decision, user_input) ==
    /\ Dispatch("main", 1, user_input, decision, SelectTier(decision.difficulty))
    /\ last_override' = "none"
    /\ UNCHANGED <<fe, phase, force_mode, fixed_temp, use_fixed_temp, temperature, functionVars>>

\* any other line is a query: the decision, then the user turn is appended
\* and the chat call starts; a forced tier is used once
Query(decision, user_input) ==
    /\ force_mode' = IF decision.forced THEN [force_mode EXCEPT ![1] = "None"] ELSE force_mode
    /\ Dispatch("main", 1, user_input, decision, SelectTier(decision.difficulty))
    /\ last_override' = "none"
    /\ UNCHANGED <<fe, phase, fixed_temp, use_fixed_temp, temperature, functionVars>>

RoutingClientQuery(text) ==
    /\ fe = "routing_client"
    /\ Prompting
    /\ queries < MaxQueries
    /\ KindOf[fe][text] = "query"
    /\ Query(RoutingClientDecision(force_mode[1], temperature, Strip(text)), Strip(text))

\* an exception that classify_with_ai does not catch leaves main
SmartRouterQuery(text, outcome) ==
    /\ fe = "smart_router"
    /\ Prompting
    /\ queries < MaxQueries
    /\ KindOf[fe][text] = "query"
    /\ LET decision == SmartRouterDecision(force_mode[1], fixed_temp[1], outcome)
       IN  IF decision.raised # "none"
           THEN /\ phase' = "crashed"
                /\ UNCHANGED <<fe, histories, force_mode, fixed_temp, use_fixed_temp, temperature,
                               rq, queries, last_override, functionVars>>
           ELSE Query(decision, Strip(text))

\* chat returns or raises: the assistant turn is appended; a request error
\* pops the last message; any other exception leaves main
TerminalChatDone(outcome) ==
    /\ Terminal
    /\ phase = "loop"
    /\ rq["main"].pc = "streaming"
    /\ LET key == rq["main"].history
       IN  CASE outcome = "ok" ->
                  /\ histories' = [histories EXCEPT ![key] = Append(@, Turn("assistant", RESPONSE, 1))]
                  /\ rq' = [rq EXCEPT !["main"] = Idle]
                  /\ UNCHANGED phase
             [] outcome = "RequestException" ->
                  /\ histories' = [histories EXCEPT ![key] = SubSeq(@, 1, Len(@) - 1)]
                  /\ rq' = [rq EXCEPT !["main"] = Idle]
                  /\ UNCHANGED phase
             [] OTHER ->
                  /\ phase' = "crashed"
                  /\ UNCHANGED <<histories, rq>>
    /\ UNCHANGED <<fe, force_mode, fixed_temp, use_fixed_temp, temperature, queries, last_override, functionVars>>

\* ---- the web UI

SetForceMode(s, choice) ==
    /\ fe = "web_ui"
    /\ force_mode' = [force_mode EXCEPT ![s] = choice]
    /\ UNCHANGED <<fe, phase, histories, fixed_temp, use_fixed_temp, temperature, rq, queries, last_override, functionVars>>

\* the slider is visible, and can be moved, only while the box is checked
SetFixedTemp(s, value) ==
    /\ fe = "web_ui"
    /\ use_fixed_temp[s]
    /\ fixed_temp' = [fixed_temp EXCEPT ![s] = Some(value)]
    /\ UNCHANGED <<fe, phase, histories, force_mode, use_fixed_temp, temperature, rq, queries, last_override, functionVars>>

SetUseFixedTemp(s, checked) ==
    /\ fe = "web_ui"
    /\ use_fixed_temp' = [use_fixed_temp EXCEPT ![s] = checked]
    /\ UNCHANGED <<fe, phase, histories, force_mode, fixed_temp, temperature, rq, queries, last_override, functionVars>>

\* respond, up to the start of the stream; its inputs are the textbox, the
\* radio and the slider of the session
Respond(slot, s, message, outcome) ==
    /\ fe = "web_ui"
    /\ rq[slot].pc = "idle"
    /\ IF Strip(message) = <<>>
       THEN UNCHANGED <<histories, rq, queries>>
       ELSE /\ queries < MaxQueries
            /\ LET decision == WebDecision(force_mode[s], fixed_temp[s], outcome)
               IN  Dispatch(slot, s, message, decision, GetTierInfo(decision.difficulty))
    /\ UNCHANGED <<fe, phase, force_mode, fixed_temp, use_fixed_temp, temperature, last_override, functionVars>>

\* the end of a stream when clear_all empties the three lists in place: the
\* list respond holds is still the current one
StreamDoneInPlace(slot, outcome) ==
    /\ fe = "web_ui"
    /\ rq[slot].pc = "streaming"
    /\ histories' = IF outcome = "ok"
                    THEN [histories EXCEPT ![rq[slot].history] =
                              Append(@, Turn("assistant", RESPONSE, rq[slot].sid))]
                    ELSE histories
    /\ rq' = [rq EXCEPT ![slot] = Idle]
    /\ UNCHANGED <<fe, phase, force_mode, fixed_temp, use_fixed_temp, temperature, queries, last_override, functionVars>>

\* the stream ends: the assistant turn is appended to the list respond
\* holds; any exception is shown in the chat and nothing else is done
StreamDone(slot, outcome) ==
    /\ fe = "web_ui"
    /\ rq[slot].pc = "streaming"
    /\ histories' = IF outcome = "ok" /\ ~rq[slot].stale
                    THEN [histories EXCEPT ![rq[slot].history] =
                              Append(@, Turn("assistant", RESPONSE, rq[slot].sid))]
                    ELSE histories
    /\ rq' = [rq EXCEPT ![slot] = Idle]
    /\ UNCHANGED <<fe, phase, force_mode, fixed_temp, use_fixed_temp, temperature, queries, last_override, functionVars>>

\* clear_all with a dict that keeps the strong list
ClearAllKeepsStrong(s) ==
    /\ fe = "web_ui"
    /\ histories' = [t \in Tiers |-> IF t = "strong" THEN histories[t] ELSE <<>>]
    /\ rq' = [slot \in DOMAIN rq |->
                IF rq[slot].pc = "streaming" THEN [rq[slot] EXCEPT !.stale = TRUE] ELSE rq[slot]]
    /\ UNCHANGED <<fe, phase, force_mode, fixed_temp, use_fixed_temp, temperature, queries, last_override, functionVars>>

\* clear_all rebinds the global to three new lists: a call of respond that
\* is streaming keeps the list it took, which nothing reads again
ClearAll(s) ==
    /\ fe = "web_ui"
    /\ histories' = [t \in Tiers |-> <<>>]
    /\ rq' = [slot \in DOMAIN rq |->
                IF rq[slot].pc = "streaming" THEN [rq[slot] EXCEPT !.stale = TRUE] ELSE rq[slot]]
    /\ UNCHANGED <<fe, phase, force_mode, fixed_temp, use_fixed_temp, temperature, queries, last_override, functionVars>>

Next ==
    \/ \E text \in StartupInputs : Startup(text)
    \/ \E text \in Lines : NoOpLine(text)
    \/ \E text \in Lines : Bye(text)
    \/ \E text \in Lines : ForceCommand(text)
    \/ \E text \in Lines : AutoCommand(text)
    \/ \E text \in Lines : TempCommand(text)
    \/ \E text \in Lines : RoutingClientQuery(text)
    \/ \E text \in Lines, outcome \in AiOutcomes : SmartRouterQuery(text, outcome)
    \/ \E outcome \in ChatOutcomes : TerminalChatDone(outcome)
    \/ \E s \in Operators, choice \in RadioPicks : SetForceMode(s, choice)
    \/ \E s \in Operators, value \in SliderValues : SetFixedTemp(s, value)
    \/ \E s \in Operators, checked \in BOOLEAN : SetUseFixedTemp(s, checked)
    \/ \E slot \in {"submit", "click"}, s \in Sessions, message \in WebMessages, outcome \in AiOutcomes :
          Respond(slot, s, message, outcome)
    \/ \E slot \in {"submit", "click"}, outcome \in ChatOutcomes : StreamDone(slot, outcome)
    \/ \E s \in Sessions : ClearAll(s)

Spec == Init /\ [][Next]_vars

\* What the code guarantees about a call in flight.  web_ui posts with
\* timeout=30 (generate_simple) and timeout=120 (chat_stream): a backend that
\* stays silent makes requests raise Timeout, a RequestException, so a
\* stream that has started always ends.  routing_client and smart_router
\* post without a timeout: their call returns when the backend answers, and
\* nothing makes it return otherwise.
LiveSpec ==
    /\ Spec
    /\ \A slot \in {"submit", "click"} :
          WF_vars(\E outcome \in ChatOutcomes : StreamDone(slot, outcome))

\* ----------------------------------------- the classifiers, called alone

\* No front end runs: the session is as one terminal client leaves it when
\* it exits without a query, and only the last four variables change.
NoSession ==
    /\ fe = "routing_client"
    /\ phase = "exited"
    /\ histories = [t \in Tiers |-> <<>>]
    /\ force_mode = [s \in Sessions |-> "None"]
    /\ fixed_temp = [s \in Sessions |-> None]
    /\ use_fixed_temp = [s \in Sessions |-> FALSE]
    /\ temperature = DEFAULT_TEMPERATURE
    /\ rq = [slot \in SlotsOf("routing_client") |-> Idle]
    /\ queries = 0
    /\ last_override = "none"

\* the decision of a call that has not returned
Pending == Escaped("none")

MaxWords == 3

Vocabulary ==
    { <<"d", "e", "f", "i", "n", "e">>,
      <<"d", "e", "b", "u", "g">>,
      <<"w", "h", "y">>,
      <<"h", "i">>,
      <<"c", "a", "t">>,
      <<"D", "e", "f">> }

\* the prompts of at most n words of the vocabulary, one space between words
RECURSIVE Sentences(_)
Sentences(n) ==
    IF n = 0 THEN {<<>>}
    ELSE LET shorter == Sentences(n - 1)
         IN  shorter \cup {IF s = <<>> THEN w ELSE s \o <<" ">> \o w : s \in shorter, w \in Vocabulary}

\* n copies of a word, one space between them
Repeated(w, n) ==
    [i \in 1..((n * (Len(w) + 1)) - 1) |->
        IF i % (Len(w) + 1) = 0 THEN " " ELSE w[i % (Len(w) + 1)]]

\* prompts on both sides of each word-count threshold of the heuristics
LongPrompts == {Repeated(<<"c", "a", "t">>, n) : n \in {9, 10, 11, 30, 31, 100, 101}}

\* prompts with question marks, code tokens and newlines
StructuredPrompts ==
    LET cat == <<"c", "a", "t">>
        newlines(n) == [i \in 1..n |-> "\n"]
    IN  { cat \o <<"?">>,
          cat \o <<"?", " ">> \o cat \o <<"?">>,
          DEF_TOKEN \o cat,
          DEF_TOKEN \o cat \o <<"?", "?">>,
          DEF_TOKEN \o cat \o newlines(5),
          DEF_TOKEN \o cat \o newlines(6),
          cat \o newlines(6),
          CLASS_TOKEN \o cat,
          CODE_FENCE \o cat \o CODE_FENCE,
          DEF_TOKEN \o Repeated(cat, 101) }

Prompts == Sentences(MaxWords) \cup LongPrompts \cup StructuredPrompts

ComplexityInit ==
    /\ NoSession
    /\ prompt \in Prompts
    /\ complexity = "none"
    /\ generated = NoCall
    /\ classification = Pending
    /\ base_temp = 0
    /\ shaped = None

CallClassifyComplexity ==
    /\ complexity = "none"
    /\ complexity' = classify_complexity(prompt)
    /\ UNCHANGED <<sessionVars, prompt, generated, classification, base_temp, shaped>>

ComplexitySpec == ComplexityInit /\ [][CallClassifyComplexity]_vars

MaxLexemes == 4

Alphabet ==
    { LBRACE, RBRACE, COMMA, PROSE,
      StrMember(DIFFICULTY, STRONG_TEXT),
      NullMember(DIFFICULTY),
      NumMember(TEMPERATURE, 7 * One),
      NullMember(TEMPERATURE) }

\* the outputs of at most n lexemes of the alphabet
RECURSIVE Outputs(_)
Outputs(n) ==
    IF n = 0 THEN {<<>>}
    ELSE LET shorter == Outputs(n - 1)
         IN  shorter \cup {Append(r, lex) : r \in shorter, lex \in Alphabet}

\* longer outputs, and values of the other JSON types
Samples ==
    { <<PROSE, LBRACE, StrMember(DIFFICULTY, FAST_TEXT), COMMA, NumMember(TEMPERATURE, 300000), RBRACE, PROSE>>,
      <<LBRACE, SPACE, StrMember(DIFFICULTY, STRONG_TEXT), COMMA, SPACE, NumMember(TEMPERATURE, 7 * One), RBRACE>>,
      <<LBRACE, NumMember(DIFFICULTY, 5 * One), RBRACE>>,
      <<LBRACE, ListMember(DIFFICULTY), RBRACE>>,
      <<LBRACE, StrMember(DIFFICULTY, <<"h", "a", "r", "d">>), RBRACE>>,
      <<LBRACE, StrMember(TEMPERATURE, <<"h", "o", "t">>), RBRACE>>,
      <<LBRACE, StrMember(TEMPERATURE, <<"0", ".", "3">>), RBRACE>>,
      <<LBRACE, StrMember(TEMPERATURE, NAN_TEXT), RBRACE>>,
      <<LBRACE, ListMember(TEMPERATURE), RBRACE>>,
      <<LBRACE, BoolMember(TEMPERATURE, TRUE), RBRACE>>,
      <<LBRACE, StrMember(REASON, <<"a", "}", "b">>), RBRACE>>,
      <<LBRACE, StrMember(DIFFICULTY, STRONG_TEXT), COMMA, StrMember(TEMPERATURE, <<"h", "o", "t">>), RBRACE>>,
      <<LBRACE, StrMember(DIFFICULTY, <<"S", "T", "R", "O", "N", "G">>), COMMA, NumMember(TEMPERATURE, 300000), RBRACE>>,
      <<LBRACE, StrMember(DIFFICULTY, <<"h", "a", "r", "d">>), COMMA, NumMember(TEMPERATURE, 300000), RBRACE>>,
      <<LBRACE, StrMember(DIFFICULTY, STRONG_TEXT), COMMA, NumMember(TEMPERATURE, 300000), COMMA,
        StrMember(REASON, <<"a", "}", "b">>), RBRACE>>,
      <<LBRACE, StrMember(DIFFICULTY, STRONG_TEXT), COMMA, NumMember(TEMPERATURE, 300000), COMMA,
        ObjMember(REASON, <<"{", "k", "}">>), RBRACE>> }

Generations ==
    {RequestError} \cup {Reply(result) : result \in Outputs(MaxLexemes) \cup Samples}

ClassifierInit ==
    /\ NoSession
    /\ prompt = <<>>
    /\ complexity = "none"
    /\ generated \in [caught : {SR_CAUGHT, WEB_CAUGHT}, outcome : Generations]
    /\ classification = Pending
    /\ base_temp = 0
    /\ shaped = None

CallClassifyWithAi ==
    /\ classification = Pending
    /\ classification' = ClassifyWithAi(generated.caught, generated.outcome)
    /\ UNCHANGED <<sessionVars, prompt, complexity, generated, base_temp, shaped>>

ClassifierSpec == ClassifierInit /\ [][CallClassifyWithAi]_vars

GridSteps == 50

\* The arguments: a grid over [0.0, 1.4], which holds every value together
\* with its mirror image about TEMP_MEAN, and the two values one millionth
\* from TEMP_MEAN.  For 0.699999 and 0.700001 the float blend rounds back to
\* the argument itself (the weight is 1 - 2.2e-11, so the pull toward the
\* mean is 2.2e-17, below half a unit in the last place), and the
\* millionths here give the same result; for every other argument of the
\* set the pull is more than a millionth.
BaseTemps ==
    {(k * One) \div GridSteps : k \in 0..((14 * GridSteps) \div 10)}
        \cup {TEMP_MEAN - 1, TEMP_MEAN, TEMP_MEAN + 1}

ShaperInit ==
    /\ NoSession
    /\ prompt = <<>>
    /\ complexity = "none"
    /\ generated = NoCall
    /\ classification = Pending
    /\ base_temp \in BaseTemps
    /\ shaped = None

CallApplyGaussianTemperature ==
    /\ shaped = None
    /\ shaped' = Some(apply_gaussian_temperature(base_temp))
    /\ UNCHANGED <<sessionVars, prompt, complexity, generated, classification, base_temp>>

ShaperSpec == ShaperInit /\ [][CallApplyGaussianTemperature]_vars

\* ------------------------------------------------------------- properties

\* C1: in every front end a forced tier is used for one query: the step that
\* routes a forced query leaves the force of that session unset, so that
\* the next query is classified unless a tier is forced again.
C1_ForcedTierIsOneShot ==
    [][\A slot \in DOMAIN rq :
          (rq[slot].pc = "idle" /\ rq'[slot].pc = "streaming" /\ rq'[slot].forced)
              => force_mode'[rq'[slot].sid] \in {"None", "Auto"}]_vars

\* C2: in every front end and for every kind of failure, when the chat call
\* of a query ends without an assistant turn, the selected tier's history is
\* what it was before the query: the list that was sent, less the user turn.
C2_FailedDispatchRestoresHistory ==
    [][\A slot \in DOMAIN rq :
          LET key == rq[slot].history
              ended == rq'[slot].pc = "idle" \/ phase' = "crashed"
              answered == histories'[key] = Append(histories[key], Turn("assistant", RESPONSE, rq[slot].sid))
          IN  (rq[slot].pc = "streaming" /\ ~rq[slot].stale /\ ended /\ ~answered)
                  => histories'[key] = SubSeq(rq[slot].messages, 1, Len(rq[slot].messages) - 1)]_vars

\* C3: whenever no query is in flight, every tier's history alternates user,
\* assistant, user, assistant, ... and so ends with an assistant turn.
C3_HistoriesAlternate ==
    (\A slot \in DOMAIN rq : rq[slot].pc = "idle")
        => \A t \in Tiers :
              /\ Len(histories[t]) % 2 = 0
              /\ \A i \in 1..Len(histories[t]) :
                    histories[t][i].role = (IF i % 2 = 1 THEN "user" ELSE "assistant")

\* C4: while a fixed temperature t in [0, 1] is set (smart_router: after
\* /temp t; web UI: the Override Temperature box checked and the slider at
\* t), every query is dispatched with temperature exactly t, forced or not.
C4_FixedTemperatureWins ==
    [][\A slot \in DOMAIN rq :
          LET s == rq'[slot].sid
              is_set == IF fe = "web_ui" THEN use_fixed_temp[s] ELSE fixed_temp[s].set
          IN  (rq[slot].pc = "idle" /\ rq'[slot].pc = "streaming" /\ is_set)
                  => rq'[slot].temperature = fixed_temp[s].v]_vars

\* C5: the step that accepts a query appends its user turn to the history of
\* the tier of the decision, sends that list to the model of that tier and
\* changes no other history; the step that ends the exchange changes at
\* most that same history, by the assistant turn or by the rollback.
C5_ExchangeTouchesOnlySelectedTier ==
    [][\A slot \in DOMAIN rq :
          /\ (rq[slot].pc = "idle" /\ rq'[slot].pc = "streaming") =>
                LET t == rq'[slot].difficulty
                    user == Turn("user", rq'[slot].message, rq'[slot].sid)
                IN  /\ t \in Tiers
                    /\ rq'[slot].history = t
                    /\ rq'[slot].model = (CASE t = "fast" -> FAST_MODEL
                                            [] t = "normal" -> NORMAL_MODEL
                                            [] t = "strong" -> STRONG_MODEL)
                    /\ histories'[t] = Append(histories[t], user)
                    /\ rq'[slot].messages = histories'[t]
                    /\ \A o \in Tiers \ {t} : histories'[o] = histories[o]
          /\ (rq[slot].pc = "streaming" /\ rq'[slot].pc = "idle") =>
                LET t == rq[slot].difficulty
                    before == histories[t]
                IN  /\ histories'[t] \in { before,
                                           Append(before, Turn("assistant", RESPONSE, rq[slot].sid)),
                                           SubSeq(before, 1, Len(before) - 1) }
                    /\ \A o \in Tiers \ {t} : histories'[o] = histories[o]]_vars

\* a query routed to normal was answered while the other two tiers hold
\* turns of their own
C5_Witness ==
    /\ \A slot \in DOMAIN rq : rq[slot].pc = "idle"
    /\ Len(histories["normal"]) = 2
    /\ histories["normal"][2].role = "assistant"
    /\ histories["fast"] # <<>>

\* C6: for every outcome of the backend call, the model-assisted classifier
\* raises nothing and returns one of the three tiers with a temperature in
\* [0, 1].
C6_ClassifierNeverRaises ==
    classification # Pending
        => /\ classification.raised = "none"
           /\ classification.difficulty \in Tiers
           /\ 0 <= classification.temperature
           /\ classification.temperature <= One

\* C7: when the backend call raises a request error, or the output holds no
\* match of the brace pattern, or the matched text is not valid JSON, the
\* model-assisted classifier returns tier normal with temperature 0.7.
C7_FallbackIsNormalDefault ==
    LET outcome == generated.outcome
        chars == Flatten(outcome.result, 1)
        json_match == ReSearchObject(chars)
        unusable == \/ outcome.kind = "RequestException"
                    \/ json_match = <<0, 0>>
                    \/ ~JsonLoads(outcome.result, chars, json_match).valid
    IN  (classification # Pending /\ unusable)
            => /\ classification.raised = "none"
               /\ classification.difficulty = "normal"
               /\ classification.temperature = 700000

\* smart_router's classifier has returned the fallback for an output whose
\* braces hold prose, not JSON
C7_Witness ==
    /\ generated.caught = SR_CAUGHT
    /\ generated.outcome = Reply(<<PROSE, LBRACE, PROSE, RBRACE>>)
    /\ classification # Pending
    /\ classification.difficulty = "normal"

\* C8: in every front end, the temperature of every chat call in flight is
\* in [0.0, 1.0].
C8_DispatchedTemperatureInRange ==
    \A slot \in DOMAIN rq :
        rq[slot].pc = "streaming"
            => (0 <= rq[slot].temperature /\ rq[slot].temperature <= One)

\* C9: every turn of the list sent to the backend for a query was submitted
\* in the session of that query, and no step removes turns of two sessions
\* from the histories (a clear removes the turns of the session it is for).
C9_SessionsShareNothing ==
    [][/\ \A slot \in DOMAIN rq :
             (rq[slot].pc = "idle" /\ rq'[slot].pc = "streaming")
                 => \A i \in 1..Len(rq'[slot].messages) :
                       rq'[slot].messages[i].sid = rq'[slot].sid
       /\ LET removed == UNION {{histories[t][i].sid : i \in (Len(histories'[t]) + 1)..Len(histories[t])} :
                                  t \in Tiers}
          IN  Cardinality(removed) <= 1]_vars

\* C10 as stated: the rule-based classifier returns strong for every query
\* that holds at least one strong keyword and at least one normal keyword.
C10_StrongAndNormalKeywordIsStrong ==
    LET prompt_lower == Strip(Lower(prompt))
    IN  (complexity # "none" /\ HasStrongKeyword(prompt_lower) /\ HasNormalKeyword(prompt_lower))
            => complexity = "strong"

\* C10, amended: the rule-based classifier returns strong for every query
\* that matches no simple pattern and holds at least one strong keyword and
\* at least one normal keyword.
C10_StrongBeatsNormalAfterSimplePatterns ==
    LET prompt_lower == Strip(Lower(prompt))
    IN  (/\ complexity # "none"
         /\ ~MatchesSimplePattern(prompt_lower)
         /\ HasStrongKeyword(prompt_lower)
         /\ HasNormalKeyword(prompt_lower))
            => complexity = "strong"

\* "why debug" has been classified: both keyword lists match, no pattern does
C10_Witness ==
    /\ prompt = <<"w", "h", "y", " ", "d", "e", "b", "u", "g">>
    /\ ~MatchesSimplePattern(prompt)
    /\ HasStrongKeyword(prompt)
    /\ HasNormalKeyword(prompt)
    /\ complexity = "strong"

\* C11: the rule-based classifier decides by the first of its checks that
\* matches, in the order simple pattern, strong keyword, normal keyword,
\* structural heuristics: a simple pattern gives fast whatever keywords the
\* query holds, and the heuristics decide only a query with no keyword.
C11_FirstMatchDecides ==
    LET prompt_lower == Strip(Lower(prompt))
        simple == MatchesSimplePattern(prompt_lower)
        strong == HasStrongKeyword(prompt_lower)
        normal == HasNormalKeyword(prompt_lower)
    IN  complexity # "none"
            => /\ simple => complexity = "fast"
               /\ (~simple /\ strong) => complexity = "strong"
               /\ (~simple /\ ~strong /\ normal) => complexity = "normal"
               /\ (~simple /\ ~strong /\ ~normal) => complexity = Heuristics(prompt)

\* "define debug" has been classified fast: the pattern matched before the
\* strong keyword was looked for
C11_Witness ==
    /\ prompt = <<"d", "e", "f", "i", "n", "e", " ", "d", "e", "b", "u", "g">>
    /\ HasStrongKeyword(prompt)
    /\ complexity = "fast"

\* C12: the rule-based classifier's result depends only on the lower-cased,
\* trimmed query: it is the result for that text, so that two queries equal
\* after lower-casing and trimming get the same tier.
C12_DependsOnLowerTrimmedOnly ==
    complexity # "none" => complexity = classify_complexity(Strip(Lower(prompt)))

\* C13: in the model-assisted front ends, a query whose tier is forced is
\* dispatched without a call of the classifier, with the fixed temperature
\* if one is set (smart_router: /temp; web UI: the Override Temperature box
\* checked) and with 0.7 otherwise.
C13_ForcedSkipsClassifier ==
    [][\A slot \in DOMAIN rq :
          LET s == rq'[slot].sid
              is_set == IF fe = "web_ui" THEN use_fixed_temp[s] ELSE fixed_temp[s].set
          IN  (/\ fe \in {"smart_router", "web_ui"}
               /\ rq[slot].pc = "idle"
               /\ rq'[slot].pc = "streaming"
               /\ rq'[slot].forced)
                  => /\ rq'[slot].ai = None
                     /\ rq'[slot].temperature = (IF is_set THEN fixed_temp[s].v ELSE 700000)]_vars

\* C14: no failure of a chat call ends the conversation loop: while a chat
\* call is in flight or has just failed, the front end has not left its loop
\* with an exception.
C14_DispatchFailureIsCaught ==
    \A slot \in DOMAIN rq : rq[slot].pc = "streaming" => phase # "crashed"

\* C15: a step that removes turns from the histories of the web UI empties
\* all three and leaves the radio, the checkbox and the slider of every
\* session as they are; and the list sent for a query is the current history
\* of its tier, which holds no turn from before the last clear, plus the
\* query's user turn.
C15_ClearEmptiesHistoriesOnly ==
    [][fe = "web_ui" =>
          /\ (\E t \in Tiers : Len(histories'[t]) < Len(histories[t]))
                => /\ \A t \in Tiers : histories'[t] = <<>>
                   /\ force_mode' = force_mode
                   /\ fixed_temp' = fixed_temp
                   /\ use_fixed_temp' = use_fixed_temp
          /\ \A slot \in DOMAIN rq :
                (rq[slot].pc = "idle" /\ rq'[slot].pc = "streaming")
                    => SubSeq(rq'[slot].messages, 1, Len(rq'[slot].messages) - 1)
                           = histories[rq'[slot].history]]_vars

\* the web UI after a clear that followed a query, with a tier still forced
\* and the slider still at 0.0
C15_Witness ==
    /\ fe = "web_ui"
    /\ queries >= 1
    /\ \A t \in Tiers : histories[t] = <<>>
    /\ \A slot \in DOMAIN rq : rq[slot].pc = "idle"
    /\ force_mode[1] = "Fast"
    /\ use_fixed_temp[1]
    /\ fixed_temp[1] = Some(0)

\* C16: an empty or whitespace-only input is not routed: no user turn, in a
\* history or in a list sent to the backend, has a content that is empty or
\* only white space.
C16_NoBlankUserTurn ==
    LET Blank(content) == \A i \in 1..Len(content) : IsSpace(content[i])
    IN  /\ \A t \in Tiers : \A i \in 1..Len(histories[t]) :
              histories[t][i].role = "user" => ~Blank(histories[t][i].content)
        /\ \A slot \in DOMAIN rq : \A i \in 1..Len(rq[slot].messages) :
              rq[slot].messages[i].role = "user" => ~Blank(rq[slot].messages[i].content)

\* a terminal client at its prompt, where a blank line can be typed, with a
\* tier forced and a query already answered
C16_Witness ==
    /\ Prompting
    /\ force_mode[1] \in Tiers
    /\ \E t \in Tiers : Len(histories[t]) = 2

\* C17 (as stated): shape(0.7) = 0.7, for every input in [0,1] other than 0.7
\* the output lies strictly between the input and 0.7, and the output is in
\* [0,1].
C17_StrictlyBetweenEverywhere ==
    (shaped # None /\ base_temp \in 0..One)
        => /\ base_temp = TEMP_MEAN => shaped.v = TEMP_MEAN
           /\ base_temp < TEMP_MEAN => (base_temp < shaped.v /\ shaped.v < TEMP_MEAN)
           /\ base_temp > TEMP_MEAN => (TEMP_MEAN < shaped.v /\ shaped.v < base_temp)
           /\ shaped.v \in 0..One

\* C17 (amended): shape(0.7) = 0.7; for every input in [0,1] the output is in
\* [0,1] and lies between the input and 0.7, ends included; it lies strictly
\* between them for every input at least one grid step from 0.7, among them
\* 0.0 and 1.0.
C17_ShrinksTowardMean ==
    LET lo == IF base_temp < TEMP_MEAN THEN base_temp ELSE TEMP_MEAN
        hi == IF base_temp < TEMP_MEAN THEN TEMP_MEAN ELSE base_temp
    IN  (shaped # None /\ base_temp \in 0..One)
            => /\ base_temp = TEMP_MEAN => shaped.v = TEMP_MEAN
               /\ shaped.v \in 0..One
               /\ lo <= shaped.v /\ shaped.v <= hi
               /\ hi - lo >= One \div GridSteps => (lo < shaped.v /\ shaped.v < hi)

C17_Witness ==
    /\ base_temp = One
    /\ shaped # None
    /\ TEMP_MEAN < shaped.v /\ shaped.v < One

\* C18: the shaper is symmetric about the center: shape(0.7 - d) +
\* shape(0.7 + d) = 1.4 for every d, up to the truncation of the arithmetic
\* (two products a side, each truncated twice by MulFix, so the sum falls
\* short by less than 8 millionths), and the clamp to [0,1] is never the
\* active bound on either side.
C18_SymmetricAboutMean ==
    LET mirrored == apply_gaussian_temperature((2 * TEMP_MEAN) - base_temp)
    IN  shaped # None
            => /\ shaped.v + mirrored \in ((2 * TEMP_MEAN) - 7)..(2 * TEMP_MEAN)
               /\ 0 < shaped.v /\ shaped.v < One
               /\ 0 < mirrored /\ mirrored < One

C18_Witness ==
    /\ base_temp = 0
    /\ shaped # None
    /\ shaped.v < TEMP_MEAN
    /\ apply_gaussian_temperature(2 * TEMP_MEAN) > TEMP_MEAN

\* C19: queries against the same histories are processed one at a time: no
\* query's user turn is appended to a tier history while another query
\* routed to that history is still between its user-turn append and its
\* assistant-turn append or rollback, so no history ever holds two
\* consecutive user turns or two consecutive assistant turns.
C19_OneQueryAtATime ==
    [][/\ \A slot \in DOMAIN rq :
            (rq[slot].pc = "idle" /\ rq'[slot].pc = "streaming")
                => \A other \in DOMAIN rq \ {slot} :
                      ~(rq[other].pc = "streaming" /\ rq[other].history = rq'[slot].history)
       /\ \A t \in Tiers :
            \A i \in 1..(Len(histories'[t]) - 1) :
                histories'[t][i].role # histories'[t][i + 1].role]_vars

\* C20: in the model-assisted front ends, a query whose tier is chosen
\* automatically while no fixed temperature is set (smart_router: no /temp
\* value; web UI: the Override Temperature box unchecked) is dispatched with
\* the temperature the classifier returned for it.
C20_ClassifierTemperatureUsed ==
    [][\A slot \in DOMAIN rq :
          LET s == rq'[slot].sid
              is_set == IF fe = "web_ui" THEN use_fixed_temp[s] ELSE fixed_temp[s].set
          IN  (/\ fe \in {"smart_router", "web_ui"}
               /\ rq[slot].pc = "idle"
               /\ rq'[slot].pc = "streaming"
               /\ ~rq'[slot].forced
               /\ ~is_set)
                  => /\ rq'[slot].ai # None
                     /\ rq'[slot].temperature = rq'[slot].ai.v]_vars

\* C21: when the JSON object of the auxiliary model's output has a valid
\* difficulty and its temperature is absent or is not a number, the
\* classifier returns that difficulty as the tier, with temperature 0.7.
C21_BadTemperatureKeepsDifficulty ==
    LET outcome == generated.outcome
        chars == Flatten(outcome.result, 1)
        json_match == ReSearchObject(chars)
        parsed == JsonLoads(outcome.result, chars, json_match)
        d == Get(parsed.members, DIFFICULTY)
        t == Get(parsed.members, TEMPERATURE)
        tier == CHOOSE x \in Tiers :
                    Lower(d.s) = (CASE x = "fast" -> FAST_TEXT
                                    [] x = "normal" -> NORMAL_TEXT
                                    [] x = "strong" -> STRONG_TEXT)
    IN  (/\ classification # Pending
         /\ outcome.kind = "reply"
         /\ json_match # <<0, 0>>
         /\ parsed.valid
         /\ HasKey(parsed.members, DIFFICULTY)
         /\ d.t = "str"
         /\ Lower(d.s) \in {FAST_TEXT, NORMAL_TEXT, STRONG_TEXT}
         /\ \/ ~HasKey(parsed.members, TEMPERATURE)
            \/ t.t \in {"null", "list", "obj"}
            \/ t.t = "str" /\ ~ParseFloat(t.s).ok)
            => /\ classification.raised = "none"
               /\ classification.difficulty = tier
               /\ classification.temperature = 700000

\* C22: when the JSON object has a usable temperature and its difficulty is
\* missing or is a string that, lower-cased, is none of fast, normal and
\* strong, the classifier returns tier normal with the object's own
\* temperature, clamped and shaped; a difficulty that is one of the three
\* names in any letter case gives that tier.
C22_DifficultyNormalised ==
    LET outcome == generated.outcome
        chars == Flatten(outcome.result, 1)
        json_match == ReSearchObject(chars)
        parsed == JsonLoads(outcome.result, chars, json_match)
        missing == ~HasKey(parsed.members, DIFFICULTY)
        d == Get(parsed.members, DIFFICULTY)
        base == BaseTemperatureOf(parsed.members)
        named == IF missing THEN <<>> ELSE Lower(d.s)
    IN  (/\ classification # Pending
         /\ outcome.kind = "reply"
         /\ json_match # <<0, 0>>
         /\ parsed.valid
         /\ missing \/ d.t = "str"
         /\ base.raised = "none")
            => /\ classification.raised = "none"
               /\ classification.difficulty =
                      (IF named = FAST_TEXT THEN "fast"
                       ELSE IF named = STRONG_TEXT THEN "strong"
                       ELSE "normal")
               /\ classification.temperature = apply_gaussian_temperature(Clamp01(base.v))
               /\ classification.reason # "Fallback"

\* the difficulty "STRONG" has given tier strong with the shaped 0.3
C22_Witness ==
    /\ generated.outcome = Reply(<<LBRACE, StrMember(DIFFICULTY, <<"S", "T", "R", "O", "N", "G">>),
                                   COMMA, NumMember(TEMPERATURE, 300000), RBRACE>>)
    /\ classification # Pending
    /\ classification.difficulty = "strong"
    /\ classification.temperature = apply_gaussian_temperature(300000)

\* C23: when the first brace in the output opens a well-formed JSON object
\* with a string difficulty and a numeric temperature, whatever prose
\* surrounds it and whether or not one of its values is a nested object or a
\* string with a brace in it, the decision is built from that difficulty and
\* temperature and is not the fallback.
C23_FirstBalancedObjectIsUsed ==
    LET result == generated.outcome.result
        braces == {n \in 1..Len(result) : result[n].k \in {"lbrace", "rbrace"}}
        i == CHOOSE n \in braces : \A o \in braces : n <= o
        later == {n \in braces : n > i}
        j == CHOOSE n \in later : \A o \in later : n <= o
        NotSpace(lex) == lex.k # "space"
        inner == SelectSeq(SubSeq(result, i + 1, j - 1), NotSpace)
        members == [n \in 1..((Len(inner) + 1) \div 2) |-> inner[2 * n - 1]]
        wellformed == /\ braces # {} /\ result[i].k = "lbrace"
                      /\ later # {} /\ result[j].k = "rbrace"
                      /\ Len(inner) % 2 = 1
                      /\ \A n \in 1..Len(inner) :
                            inner[n].k = (IF n % 2 = 1 THEN "member" ELSE "comma")
        d == Get(members, DIFFICULTY)
        t == Get(members, TEMPERATURE)
    IN  (/\ classification # Pending
         /\ generated.outcome.kind = "reply"
         /\ wellformed
         /\ HasKey(members, DIFFICULTY) /\ d.t = "str"
         /\ HasKey(members, TEMPERATURE) /\ t.t = "num")
            => /\ classification.raised = "none"
               /\ classification.difficulty = DifficultyOf(members).v
               /\ classification.temperature = apply_gaussian_temperature(Clamp01(t.n))
               /\ classification.reason # "Fallback"

\* C24: for a query that matches no simple pattern and contains no keyword,
\* the rule-based tier is strong if code is present with more than 5
\* newlines or there is more than one question mark; otherwise normal if
\* code is present; otherwise strong above 100 words, normal above 30, fast
\* below 10 (the empty query included) and normal from 10 to 30.
C24_HeuristicCascade ==
    LET prompt_lower == Strip(Lower(prompt))
        words == Len(Split(prompt))
        code == \E token \in {CODE_FENCE, DEF_TOKEN, FUNCTION_TOKEN, CLASS_TOKEN} :
                    Contains(prompt, token)
        questions == Count(prompt, "?")
        newlines == Count(prompt, "\n")
    IN  (/\ complexity # "none"
         /\ ~MatchesSimplePattern(prompt_lower)
         /\ ~HasStrongKeyword(prompt_lower)
         /\ ~HasNormalKeyword(prompt_lower))
            => complexity =
                  (CASE (code /\ newlines > 5) \/ questions > 1 -> "strong"
                     [] ~((code /\ newlines > 5) \/ questions > 1) /\ code -> "normal"
                     [] ~code /\ questions <= 1 /\ words > 100 -> "strong"
                     [] ~code /\ questions <= 1 /\ words \in 31..100 -> "normal"
                     [] ~code /\ questions <= 1 /\ words \in 10..30 -> "normal"
                     [] ~code /\ questions <= 1 /\ words < 10 -> "fast")

\* a prompt of exactly 100 words without code has been classified normal
C24_Witness ==
    /\ Len(Split(prompt)) = 100
    /\ ~Contains(prompt, DEF_TOKEN)
    /\ ~HasNormalKeyword(Strip(Lower(prompt)))
    /\ complexity = "normal"

\* C25: every query that has been dispatched eventually ends: its chat call
\* returns or raises, whether or not the backend ever answers, because each
\* network call is bounded by a timeout.
C25_EveryQueryEnds ==
    \A slot \in {"main", "submit", "click"} :
        (slot \in DOMAIN rq /\ rq[slot].pc = "streaming")
            ~> (slot \notin DOMAIN rq \/ rq[slot].pc = "idle" \/ phase = "crashed")

\* C26: at every chat dispatch the list sent is the selected tier's history,
\* the user turn having been appended first: its last element is the current
\* query's user turn, and the elements before it are the tier's history as
\* it was, made of completed exchanges only (user, assistant, user,
\* assistant, ...).
C26_SentListIsCompletedExchangesPlusQuery ==
    [][\A slot \in DOMAIN rq :
          LET sent == rq'[slot].messages
              key == rq'[slot].history
              earlier == SubSeq(sent, 1, Len(sent) - 1)
          IN  (rq[slot].pc = "idle" /\ rq'[slot].pc = "streaming")
                  => /\ sent = histories'[key]
                     /\ sent # <<>>
                     /\ sent[Len(sent)] = Turn("user", rq'[slot].message, rq'[slot].sid)
                     /\ earlier = histories[key]
                     /\ Len(earlier) % 2 = 0
                     /\ \A i \in 1..Len(earlier) :
                           earlier[i].role = (IF i % 2 = 1 THEN "user" ELSE "assistant")]_vars

\* C27: in the terminal clients, the only front ends that roll a user turn
\* back, a forced tier is consumed when the decision is made: the step that
\* dispatches a forced query clears force_mode, so when that dispatch fails
\* and its user turn is removed force_mode is still unset, and a query
\* dispatched while force_mode is unset is not forced.
C27_ForceConsumedAtDecision ==
    [][\A slot \in DOMAIN rq :
          LET key == rq[slot].history
              dispatched == rq[slot].pc = "idle" /\ rq'[slot].pc = "streaming"
              rolled_back == /\ rq[slot].pc = "streaming"
                             /\ rq'[slot].pc = "idle"
                             /\ Len(histories'[key]) = Len(histories[key]) - 1
          IN  /\ (Terminal /\ dispatched /\ rq'[slot].forced)
                    => (force_mode[1] \in Tiers /\ force_mode'[1] = "None")
              /\ (rolled_back /\ rq[slot].forced)
                    => force_mode'[rq[slot].sid] = "None"
              /\ (Terminal /\ dispatched /\ force_mode[1] = "None")
                    => ~rq'[slot].forced]_vars

\* a forced query is in flight in a terminal client and force_mode is
\* already unset; the request error that rolls it back is the next step
C27_Witness ==
    /\ Terminal
    /\ rq["main"].pc = "streaming"
    /\ rq["main"].forced
    /\ force_mode[1] = "None"
    /\ histories[rq["main"].history] = rq["main"].messages

\* C28: in the terminal clients the override in effect for a query is the
\* last override command typed since the previous query: after /fast,
\* /normal or /strong the query is forced to that tier, whatever commands
\* came before it; after /auto, or with no command, it is classified
\* automatically; /auto also clears the fixed temperature in smart_router and
\* leaves the temperature of routing_client alone; and no override command
\* changes a history or starts a dispatch.
C28_LastOverrideCommandApplies ==
    [][Terminal =>
          /\ (rq["main"].pc = "idle" /\ rq'["main"].pc = "streaming")
                => IF last_override \in Tiers
                   THEN /\ rq'["main"].forced
                        /\ rq'["main"].difficulty = last_override
                        /\ rq'["main"].model = (CASE last_override = "fast" -> FAST_MODEL
                                                  [] last_override = "normal" -> NORMAL_MODEL
                                                  [] last_override = "strong" -> STRONG_MODEL)
                   ELSE ~rq'["main"].forced
          /\ (last_override' # "none" /\ last_override' # last_override)
                => UNCHANGED <<histories, rq, queries, temperature>>
          /\ (last_override' = "auto" /\ last_override # "auto")
                => /\ force_mode'[1] = "None"
                   /\ fixed_temp'[1] = None]_vars

\* /Strong was the last override command and the query that followed, which
\* the rule-based classifier calls fast, went to the strong model
C28_Witness ==
    /\ Terminal
    /\ rq["main"].pc = "streaming"
    /\ rq["main"].forced
    /\ rq["main"].model = STRONG_MODEL
    /\ classify_complexity(rq["main"].message) = "fast"

\* C29: in the web UI a clear that runs while a response is streaming leaves
\* the three current histories empty, and the end of the interrupted
\* response, answer or failure, changes none of them: no assistant turn
\* without its user turn and no turn from before the clear appears.
C29_ClearWhileStreaming ==
    [][fe = "web_ui" =>
          /\ (\E slot \in DOMAIN rq :
                 rq[slot].pc = "streaming" /\ ~rq[slot].stale /\ rq'[slot].stale)
                => \A t \in Tiers : histories'[t] = <<>>
          /\ \A slot \in DOMAIN rq :
                (rq[slot].pc = "streaming" /\ rq[slot].stale /\ rq'[slot].pc = "idle")
                    => histories' = histories
          /\ \A t \in Tiers :
                (histories[t] = <<>> /\ histories'[t] # <<>>)
                    => histories'[t][1].role = "user"]_vars

\* the conversation was cleared while a response was streaming
C29_Witness ==
    /\ fe = "web_ui"
    /\ \E slot \in DOMAIN rq : rq[slot].pc = "streaming" /\ rq[slot].stale
    /\ \A t \in Tiers : histories[t] = <<>>

====
